---- MODULE Spec2Model ----
(***************************************************************************)
(* Model of docGenerator.py: the beam report generator.                    *)
(*                                                                         *)
(* Numbers.  A Python float v is represented by the integer v * Scale,     *)
(* with Scale = 10^8.  Input values lie on the grid of multiples of 10     *)
(* (1e-7), so that 0.1 * range is exact; the arithmetic of the model is    *)
(* exact decimal arithmetic (binary rounding of the last bit is not        *)
(* modelled).  Array indices are 0-based as in numpy; TLA+ sequences are   *)
(* 1-based, so a[i] of the code is a[i + 1] here.                          *)
(*                                                                         *)
(* Text.  A column label is a sequence of one-character strings, so that   *)
(* str.strip() is modelled by what it does to the characters.              *)
(***************************************************************************)
EXTENDS Integers, Sequences, FiniteSets, TLC

VARIABLES
    pc,             \* position of the run in main() / reportgen()
    rawLabels,      \* column labels of the sheet as read by pd.read_excel
    df,             \* the DataFrame returned by forcedata()
    xval, sval, bmval,  \* the arrays extracted by reportgen()
    imageExists,    \* os.path.exists(beam_image_path), "unknown" until read
    doc,            \* the blocks appended to the pylatex Document, in order
    stats,          \* the numbers computed for the report text
    sfd, bmd,       \* results of sfdplot() / bmdplot()
    renderInvoked,  \* doc.generate_pdf was called
    artifact,       \* the PDF was written
    success,        \* return value of reportgen(): "none", "True", "False"
    exitCode,       \* exit status of the process, -1 while running
    err,            \* the error reported, "none" if none
    written         \* the numeric texts put into the report: table cells, values

vars == <<pc, rawLabels, df, xval, sval, bmval, imageExists, doc, stats,
          sfd, bmd, renderInvoked, artifact, success, exitCode, err, written>>

----------------------------------------------------------------------------
(* Bounds of the model *)

MaxLen == 2

----------------------------------------------------------------------------
(* Numbers *)

Scale == 10^8

\* 1e-6, the threshold of the degenerate range
Eps == Scale \div 1000000

\* 1.0, the floor of the substituted range
One == Scale

\* 0.1 * r, exact for r on the input grid
Tenth(r) == r \div 10

Abs(v) == IF v < 0 THEN -v ELSE v

RECURSIVE SeqMin(_)
SeqMin(s) ==
    IF Len(s) = 1 THEN s[1]
    ELSE LET m == SeqMin(Tail(s)) IN IF m < s[1] THEN m ELSE s[1]

RECURSIVE SeqMax(_)
SeqMax(s) ==
    IF Len(s) = 1 THEN s[1]
    ELSE LET m == SeqMax(Tail(s)) IN IF m > s[1] THEN m ELSE s[1]

Max3(a, b, c) == SeqMax(<<a, b, c>>)

AbsSeq(s) == [i \in 1..Len(s) |-> Abs(s[i])]

\* np.argmin: 0-based index of the first occurrence of the minimum
RECURSIVE ArgMinFrom(_, _, _)
ArgMinFrom(s, i, best) ==
    IF i > Len(s) THEN best
    ELSE ArgMinFrom(s, i + 1, IF s[i] < s[best] THEN i ELSE best)

ArgMinLast(s) ==
    LET m == SeqMin(s)
    IN  (CHOOSE i \in 1..Len(s) : s[i] = m /\ \A j \in (i + 1)..Len(s) : s[j] # m) - 1

ArgMin(s) == ArgMinFrom(s, 2, 1) - 1

\* np.argmax: 0-based index of the first occurrence of the maximum
RECURSIVE ArgMaxFrom(_, _, _)
ArgMaxFrom(s, i, best) ==
    IF i > Len(s) THEN best
    ELSE ArgMaxFrom(s, i + 1, IF s[i] > s[best] THEN i ELSE best)

ArgMax(s) == ArgMaxFrom(s, 2, 1) - 1

\* a[i] for a 0-based index i
At(a, i) == a[i + 1]

SeqsUpTo(S, n) == UNION {[1..k -> S] : k \in 0..n}

----------------------------------------------------------------------------
(* Numeric text.  A formatted number is the record of its sign, its whole  *)
(* part and the digits after the point: "-4.10" is                         *)
(* [neg |-> TRUE, whole |-> 4, frac |-> <<1, 0>>], "5" has frac = <<>>.     *)

Pow10(n) == 10^n

\* the n digits of m, most significant first
Digits(m, n) == [i \in 1..n |-> (m \div Pow10(n - i)) % 10]

\* f"{v:.nf}": round to n places (ties to even), keep the sign of v
FormatFixed(v, n) ==
    LET q == Scale \div Pow10(n)
        a == Abs(v)
        lo == a \div q
        rem == a % q
        r == IF 2 * rem > q \/ (2 * rem = q /\ lo % 2 = 1) THEN lo + 1 ELSE lo
    IN  [neg |-> v < 0, whole |-> r \div Pow10(n), frac |-> Digits(r % Pow10(n), n)]

\* str(val) of a numpy integer: no decimal point
StrInt(v) == [neg |-> v < 0, whole |-> Abs(v) \div Scale, frac |-> <<>>]

----------------------------------------------------------------------------
(* Column labels *)

Whitespace == {" ", "\t", "\n"}

RECURSIVE LStrip(_)
LStrip(l) == IF l # <<>> /\ Head(l) \in Whitespace THEN LStrip(Tail(l)) ELSE l

RECURSIVE RStrip(_)
RStrip(l) ==
    IF l # <<>> /\ l[Len(l)] \in Whitespace THEN RStrip(SubSeq(l, 1, Len(l) - 1))
    ELSE l

\* str.strip()
StripNone(l) == l

Strip(l) == RStrip(LStrip(l))

L_x == <<"x">>
L_shear == <<"S", "h", "e", "a", "r", " ", "f", "o", "r", "c", "e">>
L_bm == <<"B", "e", "n", "d", "i", "n", "g", " ", "M", "o", "m", "e", "n", "t">>

required_columns == <<L_x, L_shear, L_bm>>

SeqRange(s) == {s[i] : i \in 1..Len(s)}

\* [col for col in required_columns if col not in df.columns]
MissingFirstTwo(columns) ==
    {required_columns[i] : i \in {j \in 1..2 : required_columns[j] \notin SeqRange(columns)}}

missing_columns(columns) ==
    {c \in SeqRange(required_columns) : c \notin SeqRange(columns)}

\* df[name].values: the data of the column labelled name
Column(d, name) ==
    IF name \in SeqRange(d.columns)
    THEN d.data[CHOOSE i \in 1..Len(d.columns) : d.columns[i] = name]
    ELSE <<>>

----------------------------------------------------------------------------
(* sfdplot and bmdplot *)

\* zip(xval, sval): pairs up to the shorter of the two series
MinLen(a, b) == IF Len(a) < Len(b) THEN Len(a) ELSE Len(b)

coordinates(xs, ys) == [i \in 1..MinLen(xs, ys) |-> <<xs[i], ys[i]>>]

\* no text written
NoNumber == [neg |-> FALSE, whole |-> 0, frac |-> <<>>]

NoPlot ==
    [status |-> "none", coordinates |-> <<>>, ymin |-> 0, ymax |-> 0, xmin |-> 0, xmax |-> 0,
     yminText |-> NoNumber, ymaxText |-> NoNumber]

\* min() / max() of an empty series raises ValueError: no diagram is returned
PlotValueError ==
    [status |-> "ValueError", coordinates |-> <<>>, ymin |-> 0, ymax |-> 0, xmin |-> 0, xmax |-> 0,
     yminText |-> NoNumber, ymaxText |-> NoNumber]

\* srange after "Ensure non zero range" in sfdplot
sfdRangeNoFloor(smin, smax) ==
    IF smax - smin < Eps THEN SeqMax(<<Abs(smin), Abs(smax)>>) ELSE smax - smin

sfdRange(smin, smax) ==
    IF smax - smin < Eps THEN Max3(Abs(smin), Abs(smax), One) ELSE smax - smin

sfdplot(xs, ss) ==
    IF ss = <<>> THEN PlotValueError
    ELSE LET smin == SeqMin(ss)
             smax == SeqMax(ss)
             srange == sfdRange(smin, smax)
         IN  IF xs = <<>> THEN PlotValueError
             ELSE [status |-> "ok",
                   coordinates |-> coordinates(xs, ss),
                   ymin |-> smin - Tenth(srange),
                   ymax |-> smax + Tenth(srange),
                   xmin |-> 0,
                   xmax |-> SeqMax(xs),
                   yminText |-> FormatFixed(smin - Tenth(srange), 1),
                   ymaxText |-> FormatFixed(smax + Tenth(srange), 1)]

\* bmrange after "Ensure non-zero range" in bmdplot
bmdRange(bmmin, bmmax) ==
    IF bmmax - bmmin < Eps THEN Max3(Abs(bmmin), Abs(bmmax), One) ELSE bmmax - bmmin

\* ymin = bmmin - 0.1 * bmrange if bmmin < 0 else 0
bmdYminAlwaysMargin(bmmin, bmrange) == bmmin - Tenth(bmrange)

bmdYmin(bmmin, bmrange) == IF bmmin < 0 THEN bmmin - Tenth(bmrange) ELSE 0

bmdplot(xs, bs) ==
    IF bs = <<>> THEN PlotValueError
    ELSE LET bmmin == SeqMin(bs)
             bmmax == SeqMax(bs)
             bmrange == bmdRange(bmmin, bmmax)
         IN  IF xs = <<>> THEN PlotValueError
             ELSE [status |-> "ok",
                   coordinates |-> coordinates(xs, bs),
                   ymin |-> bmdYmin(bmmin, bmrange),
                   ymax |-> bmmax + Tenth(bmrange),
                   xmin |-> 0,
                   xmax |-> SeqMax(xs),
                   yminText |-> FormatFixed(bmdYmin(bmmin, bmrange), 1),
                   ymaxText |-> FormatFixed(bmmax + Tenth(bmrange), 1)]

----------------------------------------------------------------------------
(* forcetable *)

\* dtype pd.read_excel gives a numeric column: int64 when every cell is a
\* whole number, float64 otherwise
dtype(col) ==
    IF \A i \in 1..Len(col) : col[i] % Scale = 0 THEN "int64" ELSE "float64"

\* dtype of the row Series df.iterrows() yields: the columns' common dtype
row_dtype(d) ==
    IF \E c \in 1..Len(d.data) : dtype(d.data[c]) = "float64" THEN "float64" ELSE "int64"

\* isinstance(val, (int, float)): numpy.float64 is a subclass of float,
\* numpy.int64 is not a subclass of int
isinstance_int_float(dt) == dt = "float64"

\* f"{val:.2f}" if isinstance(val, (int, float)) else str(val)
formatted_cell(val, dt) ==
    IF isinstance_int_float(dt) THEN FormatFixed(val, 2) ELSE StrInt(val)

\* the formatted rows of the table, one per row of df
forcetable(d) ==
    [r \in 1..Len(d.data[1]) |->
        [c \in 1..Len(d.columns) |-> formatted_cell(d.data[c][r], row_dtype(d))]]

NoText == [cells |-> <<>>, values |-> <<>>]

----------------------------------------------------------------------------
(* The run: main() calls reportgen(), which calls forcedata() *)

NoTable == [columns |-> <<>>, data |-> <<>>]

NoStats ==
    [computed |-> {},
     beamLength |-> 0,
     smax |-> 0, smin |-> 0, srange |-> 0,
     bmmax |-> 0, bmmin |-> 0, bmrange |-> 0,
     zero_crossing_idx |-> 0, zeroShearPos |-> 0,
     max_moment_idx |-> 0, maxMomentPos |-> 0,
     momentLeft |-> 0, momentRight |-> 0,
     max_shear_idx |-> 0, maxShearPos |-> 0, maxShearMag |-> 0]

\* The headers a sheet may carry: the required names, the names padded with
\* whitespace, names in another letter case, and a sheet without a moment column.
Pad(l) == <<" ">> \o l \o <<" ">>

L_shear_lower == <<"s", "h", "e", "a", "r", " ", "f", "o", "r", "c", "e">>
L_bm_upper == <<"B", "E", "N", "D", "I", "N", "G", " ", "M", "O", "M", "E", "N", "T">>

Headers ==
    { <<L_x, L_shear, L_bm>>,
      <<Pad(L_x), <<"\t">> \o L_shear, L_bm \o <<" ", " ">>>>,
      <<L_x, L_shear_lower, L_bm>>,
      <<Pad(<<"X">>), L_shear, L_bm_upper>>,
      <<L_x, L_shear, <<"M">>>>,
      <<L_shear, L_bm, <<"t">>>> }

XVals == {0, Scale \div 2, 2 * Scale}
SVals == {-Scale, 0, Scale}
BMVals == {-Scale, 0, 2 * Scale}

Init ==
    /\ pc = "main"
    /\ rawLabels = <<>>
    /\ df = NoTable
    /\ xval = <<>> /\ sval = <<>> /\ bmval = <<>>
    /\ imageExists = "unknown"
    /\ doc = <<>>
    /\ stats = NoStats
    /\ sfd = NoPlot /\ bmd = NoPlot
    /\ renderInvoked = FALSE
    /\ artifact = FALSE
    /\ success = "none"
    /\ exitCode = -1
    /\ err = "none"
    /\ written = NoText

\* sys.exit(1)
Exit1(e) ==
    /\ pc' = "done"
    /\ exitCode' = 1
    /\ err' = e

\* main(), up to the call of reportgen: the Excel file must exist
main_start ==
    /\ pc = "main"
    /\ \E excelExists \in BOOLEAN :
        IF ~excelExists
        THEN Exit1("ExcelNotFound")
        ELSE pc' = "forcedata" /\ UNCHANGED <<exitCode, err>>
    /\ UNCHANGED <<rawLabels, df, xval, sval, bmval, imageExists, doc, stats,
                   sfd, bmd, renderInvoked, artifact, success, written>>

\* forcedata(): read the sheet, strip the labels, validate columns and dtypes
forcedata ==
    /\ pc = "forcedata"
    /\ \E readOk \in BOOLEAN, labels \in Headers, numeric \in [1..3 -> BOOLEAN] :
        LET columns == [i \in 1..Len(labels) |-> Strip(labels[i])]
        IN  IF ~readOk
            THEN Exit1("ReadError") /\ UNCHANGED <<rawLabels, df>>
            ELSE /\ rawLabels' = labels
                 /\ IF missing_columns(columns) # {}
                    THEN Exit1("MissingColumns") /\ UNCHANGED df
                    ELSE IF \E i \in 1..3 : columns[i] \in SeqRange(required_columns) /\ ~numeric[i]
                    THEN Exit1("NotNumeric") /\ UNCHANGED df
                    ELSE /\ \E xs \in SeqsUpTo(XVals, MaxLen), ss \in SeqsUpTo(SVals, MaxLen),
                               bs \in SeqsUpTo(BMVals, MaxLen) :
                               df' = [columns |-> columns, data |-> <<xs, ss, bs>>]
                         /\ pc' = "reportgen"
                         /\ UNCHANGED <<exitCode, err>>
    /\ UNCHANGED <<xval, sval, bmval, imageExists, doc, stats,
                   sfd, bmd, renderInvoked, artifact, success, written>>

\* len(xval) != len(sval) or len(xval) != len(bmval)
inconsistent_lengths_xs_only(xs, ss, bs) == Len(xs) # Len(ss)

inconsistent_lengths(xs, ss, bs) == Len(xs) # Len(ss) \/ Len(xs) # Len(bs)

\* reportgen(): extract the arrays and validate their lengths
reportgen_validate ==
    /\ pc = "reportgen"
    /\ LET xs == Column(df, L_x)
           ss == Column(df, L_shear)
           bs == Column(df, L_bm)
       IN  /\ xval' = xs /\ sval' = ss /\ bmval' = bs
           /\ IF inconsistent_lengths(xs, ss, bs)
              THEN /\ err' = "InconsistentLengths"
                   /\ success' = "False"
                   /\ pc' = "main_exit"
              ELSE /\ pc' = "create_doc"
                   /\ UNCHANGED <<err, success>>
    /\ UNCHANGED <<rawLabels, df, imageExists, doc, stats, sfd, bmd,
                   renderInvoked, artifact, exitCode, written>>

\* reportgen(): Document(), packages, preamble, title, abstract, contents
reportgen_create_doc ==
    /\ pc = "create_doc"
    /\ doc' = <<"maketitle", "Abstract", "tableofcontents">>
    /\ pc' = "introduction"
    /\ UNCHANGED <<rawLabels, df, xval, sval, bmval, imageExists, stats, sfd, bmd,
                   renderInvoked, artifact, success, exitCode, err, written>>

\* The block that stands for the beam image
BeamImageBlockAlwaysFigure(exists) == "Figure:Simply Supported Beam Configuration"

BeamImageBlock(exists) ==
    IF exists THEN "Figure:Simply Supported Beam Configuration"
    ELSE "Note:Beam image not found"

\* reportgen(): Section('Introduction'); max(xval) of an empty array raises
\* ValueError, which nothing catches
reportgen_introduction ==
    /\ pc = "introduction"
    /\ \E exists \in BOOLEAN :
        /\ imageExists' = IF exists THEN "yes" ELSE "no"
        /\ doc' = doc \o <<"Section:Introduction",
                           "Subsection:Beam Description",
                           BeamImageBlock(exists),
                           "Subsection:Analysis Methodology",
                           "Subsection:Data Source">>
    /\ IF xval = <<>>
       THEN Exit1("ValueError") /\ UNCHANGED <<stats, written>>
       ELSE /\ stats' = [stats EXCEPT !.computed = @ \cup {"beamLength"},
                                      !.beamLength = SeqMax(xval)]
            /\ written' = [written EXCEPT !.values = @ \o <<FormatFixed(SeqMax(xval), 2)>>]
            /\ pc' = "input_data"
            /\ UNCHANGED <<exitCode, err>>
    /\ UNCHANGED <<rawLabels, df, xval, sval, bmval, sfd, bmd,
                   renderInvoked, artifact, success>>

\* reportgen(): Section('Input Data') with the force table and the data summary
reportgen_input_data ==
    /\ pc = "input_data"
    /\ doc' = doc \o <<"Section:Input Data",
                       "Table:Force and Moment Data",
                       "Subsection:Data Summary">>
    /\ stats' = [stats EXCEPT !.computed = @ \cup {"summary"},
                              !.smax = SeqMax(sval),
                              !.smin = SeqMin(sval),
                              !.srange = SeqMax(sval) - SeqMin(sval),
                              !.bmmax = SeqMax(bmval),
                              !.bmmin = SeqMin(bmval),
                              !.bmrange = SeqMax(bmval) - SeqMin(bmval)]
    /\ written' = [written EXCEPT
            !.cells = forcetable(df),
            !.values = @ \o <<FormatFixed(SeqMax(sval), 2),
                               FormatFixed(SeqMin(sval), 2),
                               FormatFixed(SeqMax(sval) - SeqMin(sval), 2),
                               FormatFixed(SeqMax(bmval), 2),
                               FormatFixed(SeqMin(bmval), 2),
                               FormatFixed(SeqMax(bmval) - SeqMin(bmval), 2)>>]
    /\ pc' = "analysis"
    /\ UNCHANGED <<rawLabels, df, xval, sval, bmval, imageExists, sfd, bmd,
                   renderInvoked, artifact, success, exitCode, err>>

\* reportgen(): Section('Structural Analysis') with both diagrams
reportgen_analysis ==
    /\ pc = "analysis"
    /\ LET zero_crossing_idx == ArgMin(AbsSeq(sval))
           max_moment_idx == ArgMax(bmval)
           s == sfdplot(xval, sval)
           b == bmdplot(xval, bmval)
       IN  /\ stats' = [stats EXCEPT !.computed = @ \cup {"sfd", "bmd"},
                                     !.zero_crossing_idx = zero_crossing_idx,
                                     !.zeroShearPos = At(xval, zero_crossing_idx),
                                     !.max_moment_idx = max_moment_idx,
                                     !.maxMomentPos = At(xval, max_moment_idx),
                                     !.momentLeft = bmval[1],
                                     !.momentRight = bmval[Len(bmval)]]
           /\ written' = [written EXCEPT
                   !.values = @ \o <<FormatFixed(SeqMax(sval), 2),
                                      FormatFixed(SeqMin(sval), 2),
                                      FormatFixed(At(xval, zero_crossing_idx), 2),
                                      FormatFixed(SeqMax(bmval), 2),
                                      FormatFixed(At(xval, max_moment_idx), 2),
                                      FormatFixed(bmval[1], 2),
                                      FormatFixed(bmval[Len(bmval)], 2),
                                      FormatFixed(At(xval, max_moment_idx), 2)>>]
           /\ sfd' = s
           /\ bmd' = b
           /\ doc' = doc \o <<"Section:Structural Analysis",
                              "Subsection:Shear Force Diagram (SFD)",
                              "Figure:Shear Force Diagram",
                              "Subsection:Bending Moment Diagram (BMD)",
                              "Figure:Bending Moment Diagram",
                              "Subsection:Analysis Summary">>
    /\ pc' = "interpretation"
    /\ UNCHANGED <<rawLabels, df, xval, sval, bmval, imageExists,
                   renderInvoked, artifact, success, exitCode, err>>

\* reportgen(): Section('Engineering Interpretation')
reportgen_interpretation ==
    /\ pc = "interpretation"
    /\ LET max_shear_idx == ArgMax(AbsSeq(sval))
       IN  /\ stats' = [stats EXCEPT !.computed = @ \cup {"critical"},
                                     !.max_shear_idx = max_shear_idx,
                                     !.maxShearPos = At(xval, max_shear_idx),
                                     !.maxShearMag = At(sval, max_shear_idx)]
           /\ written' = [written EXCEPT
                   !.values = @ \o <<FormatFixed(stats.maxMomentPos, 2),
                                      FormatFixed(SeqMax(bmval), 2),
                                      FormatFixed(At(xval, max_shear_idx), 2),
                                      FormatFixed(At(sval, max_shear_idx), 2),
                                      FormatFixed(stats.maxMomentPos, 2)>>]
    /\ doc' = doc \o <<"Section:Engineering Interpretation",
                       "Subsection:Critical Sections",
                       "Subsection:Design Implications">>
    /\ pc' = "conclusion"
    /\ UNCHANGED <<rawLabels, df, xval, sval, bmval, imageExists, sfd, bmd,
                   renderInvoked, artifact, success, exitCode, err>>

\* reportgen(): Section('Conclusion')
reportgen_conclusion ==
    /\ pc = "conclusion"
    /\ doc' = doc \o <<"Section:Conclusion">>
    /\ pc' = "generate_pdf"
    /\ UNCHANGED <<rawLabels, df, xval, sval, bmval, imageExists, stats, sfd, bmd,
                   renderInvoked, artifact, success, exitCode, err, written>>

\* reportgen(): doc.generate_pdf, which may raise
reportgen_generate_pdf ==
    /\ pc = "generate_pdf"
    /\ renderInvoked' = TRUE
    /\ \E rendered \in BOOLEAN :
        /\ artifact' = rendered
        /\ success' = IF rendered THEN "True" ELSE "False"
        /\ err' = IF rendered THEN err ELSE "RenderError"
    /\ pc' = "main_exit"
    /\ UNCHANGED <<rawLabels, df, xval, sval, bmval, imageExists, doc, stats,
                   sfd, bmd, exitCode, written>>

\* main(), after reportgen returned
main_exit_always_zero ==
    /\ pc = "main_exit"
    /\ exitCode' = 0
    /\ pc' = "done"
    /\ UNCHANGED <<rawLabels, df, xval, sval, bmval, imageExists, doc, stats,
                   sfd, bmd, renderInvoked, artifact, success, err, written>>

main_exit ==
    /\ pc = "main_exit"
    /\ exitCode' = IF success = "True" THEN 0 ELSE 1
    /\ pc' = "done"
    /\ UNCHANGED <<rawLabels, df, xval, sval, bmval, imageExists, doc, stats,
                   sfd, bmd, renderInvoked, artifact, success, err, written>>

Next ==
    \/ main_start
    \/ forcedata
    \/ reportgen_validate
    \/ reportgen_create_doc
    \/ reportgen_introduction
    \/ reportgen_input_data
    \/ reportgen_analysis
    \/ reportgen_interpretation
    \/ reportgen_conclusion
    \/ reportgen_generate_pdf
    \/ main_exit

Spec == Init /\ [][Next]_vars

----------------------------------------------------------------------------
(* The diagram builders alone, applied to arbitrary series *)

PlotVals == {-3 * Scale, -50, 0, 50, 2 * Scale, 2 * Scale + 50}

InitPlot ==
    /\ pc = "plot"
    /\ rawLabels = <<>>
    /\ df = NoTable
    /\ xval \in SeqsUpTo(XVals, MaxLen)
    /\ sval \in SeqsUpTo(PlotVals, MaxLen)
    /\ bmval = sval
    /\ imageExists = "unknown"
    /\ doc = <<>>
    /\ stats = NoStats
    /\ sfd = NoPlot /\ bmd = NoPlot
    /\ renderInvoked = FALSE
    /\ artifact = FALSE
    /\ success = "none"
    /\ exitCode = -1
    /\ err = "none"
    /\ written = NoText

call_sfdplot ==
    /\ pc = "plot"
    /\ sfd = NoPlot
    /\ sfd' = sfdplot(xval, sval)
    /\ UNCHANGED <<pc, rawLabels, df, xval, sval, bmval, imageExists, doc, stats,
                   bmd, renderInvoked, artifact, success, exitCode, err, written>>

call_bmdplot ==
    /\ pc = "plot"
    /\ bmd = NoPlot
    /\ bmd' = bmdplot(xval, bmval)
    /\ UNCHANGED <<pc, rawLabels, df, xval, sval, bmval, imageExists, doc, stats,
                   sfd, renderInvoked, artifact, success, exitCode, err, written>>

NextPlot == call_sfdplot \/ call_bmdplot

SpecPlot == InitPlot /\ [][NextPlot]_vars

----------------------------------------------------------------------------
(* Definitions used to state the properties, independent of the operators  *)
(* that model the code                                                     *)

Values(s) == {s[i] : i \in 1..Len(s)}
Lowest(s) == CHOOSE v \in Values(s) : \A w \in Values(s) : v <= w
Highest(s) == CHOOSE v \in Values(s) : \A w \in Values(s) : v >= w
Magnitude(v) == IF v >= 0 THEN v ELSE 0 - v

\* The range used for the margin: max - min, replaced by max(|min|, |max|, 1.0)
\* when max - min < 1e-6
MarginRange(s) ==
    LET lo == Lowest(s)
        hi == Highest(s)
    IN  IF hi - lo < Scale \div 1000000
        THEN CHOOSE r \in {Magnitude(lo), Magnitude(hi), Scale} :
                \A q \in {Magnitude(lo), Magnitude(hi), Scale} : r >= q
        ELSE hi - lo

Times(s, k) == [i \in 1..Len(s) |-> s[i] * k]

X5 == Times(<<0, 1, 2, 3, 4>>, Scale)

\* i0 (0-based) is the lowest index at which key attains its minimum / maximum
IsFirstMin(i0, key) ==
    /\ i0 \in 0..(Len(key) - 1)
    /\ \A j \in 1..Len(key) : key[i0 + 1] <= key[j]
    /\ \A j \in 1..i0 : key[j] > key[i0 + 1]

IsFirstMax(i0, key) ==
    /\ i0 \in 0..(Len(key) - 1)
    /\ \A j \in 1..Len(key) : key[i0 + 1] >= key[j]
    /\ \A j \in 1..i0 : key[j] < key[i0 + 1]

Magnitudes(s) == [i \in 1..Len(s) |-> Magnitude(s[i])]

\* label l is the name c surrounded by whitespace only
MatchesTrimmed(l, c) ==
    \E i \in 1..Len(l) :
        /\ i + Len(c) - 1 <= Len(l)
        /\ SubSeq(l, i, i + Len(c) - 1) = c
        /\ \A k \in 1..(i - 1) : l[k] \in {" ", "\t", "\n"}
        /\ \A k \in (i + Len(c))..Len(l) : l[k] \in {" ", "\t", "\n"}

ToLower(ch) ==
    CASE ch = "B" -> "b" [] ch = "D" -> "d" [] ch = "E" -> "e" [] ch = "G" -> "g"
      [] ch = "I" -> "i" [] ch = "M" -> "m" [] ch = "N" -> "n" [] ch = "O" -> "o"
      [] ch = "S" -> "s" [] ch = "T" -> "t" [] ch = "X" -> "x" [] OTHER -> ch

Lower(l) == [i \in 1..Len(l) |-> ToLower(l[i])]

\* label l is the name c up to letter case and surrounding whitespace
MatchesFolded(l, c) == MatchesTrimmed(Lower(l), Lower(c))

RequiredNames ==
    { <<"x">>,
      <<"S", "h", "e", "a", "r", " ", "f", "o", "r", "c", "e">>,
      <<"B", "e", "n", "d", "i", "n", "g", " ", "M", "o", "m", "e", "n", "t">> }

TableRead == rawLabels # <<>>

SectionTags ==
    {"Section:Introduction", "Section:Input Data", "Section:Structural Analysis",
     "Section:Engineering Interpretation", "Section:Conclusion"}

IsSectionTag(b) == b \in SectionTags

Sections(d) == SelectSeq(d, IsSectionTag)

----------------------------------------------------------------------------
(* The claims *)

\* C1: whenever a diagram builder produces a diagram, its axis bounds satisfy
\* ymax > ymin strictly and xmax > xmin strictly (xmin = 0, xmax = max(x)).
C1_AxisBoundsStrict ==
    /\ sfd.status = "ok" => (sfd.ymax > sfd.ymin /\ sfd.xmax > sfd.xmin)
    /\ bmd.status = "ok" => (bmd.ymax > bmd.ymin /\ bmd.xmax > bmd.xmin)

\* C2: for a non-empty value series the area diagram has ymin = 0 when all
\* values are >= 0 and ymin = min - 0.1 * range otherwise, and ymax = max +
\* 0.1 * range, range being max - min after the degenerate-range substitution;
\* [0,5,10,5,0] gives ymin 0, [-3,2,8] gives ymin -4.1, [0,8,12,8,0] gives
\* ymin 0 and ymax 13.2.
C2_AreaBounds ==
    /\ bmd.status = "ok" =>
        /\ (\A i \in 1..Len(bmval) : bmval[i] >= 0) => bmd.ymin = 0
        /\ (\E i \in 1..Len(bmval) : bmval[i] < 0) =>
                10 * (Lowest(bmval) - bmd.ymin) = MarginRange(bmval)
        /\ 10 * (bmd.ymax - Highest(bmval)) = MarginRange(bmval)
    /\ bmdplot(X5, Times(<<0, 5, 10, 5, 0>>, Scale)).ymin = 0
    /\ bmdplot(X5, Times(<<-3, 2, 8>>, Scale)).ymin = -41 * (Scale \div 10)
    /\ bmdplot(X5, Times(<<0, 8, 12, 8, 0>>, Scale)).ymin = 0
    /\ bmdplot(X5, Times(<<0, 8, 12, 8, 0>>, Scale)).ymax = 132 * (Scale \div 10)

\* C2 witness: the area diagram of a series with a negative value whose
\* spread is under 1e-6 has been built.
C2_Witness ==
    /\ bmd.status = "ok"
    /\ \E i \in 1..Len(bmval) : bmval[i] < 0
    /\ Highest(bmval) - Lowest(bmval) < Eps

\* C3: for a non-empty value series the line diagram has ymin = vmin - 0.1 * R
\* and ymax = vmax + 0.1 * R, where R = vmax - vmin, replaced by
\* max(|vmin|, |vmax|, 1.0) when vmax - vmin < 1e-6; shear [10,5,0,-5,-10]
\* gives [-12.0, 12.0].
C3_LineBounds ==
    /\ sfd.status = "ok" =>
        /\ 10 * (Lowest(sval) - sfd.ymin) = MarginRange(sval)
        /\ 10 * (sfd.ymax - Highest(sval)) = MarginRange(sval)
    /\ sfdplot(X5, Times(<<10, 5, 0, -5, -10>>, Scale)).ymin = -12 * Scale
    /\ sfdplot(X5, Times(<<10, 5, 0, -5, -10>>, Scale)).ymax = 12 * Scale

\* C3 witness: the line diagram of a series whose spread is under 1e-6 and
\* whose values are all under 1.0 in magnitude has been built.
C3_Witness ==
    /\ sfd.status = "ok"
    /\ Highest(sval) - Lowest(sval) < Eps
    /\ Magnitude(Lowest(sval)) < Scale /\ Magnitude(Highest(sval)) < Scale

\* C4: each reported location index is the lowest index achieving its
\* extremum and lies in [0, len-1]: zero shear is the first index minimising
\* |shear|, maximum moment the first index maximising the moment, maximum
\* shear the first index maximising |shear|; the position is x at that index.
C4_FirstIndexOfExtremum ==
    /\ "sfd" \in stats.computed =>
        /\ IsFirstMin(stats.zero_crossing_idx, Magnitudes(sval))
        /\ stats.zeroShearPos = xval[stats.zero_crossing_idx + 1]
    /\ "bmd" \in stats.computed =>
        /\ IsFirstMax(stats.max_moment_idx, bmval)
        /\ stats.maxMomentPos = xval[stats.max_moment_idx + 1]
    /\ "critical" \in stats.computed =>
        /\ IsFirstMax(stats.max_shear_idx, Magnitudes(sval))
        /\ stats.maxShearPos = xval[stats.max_shear_idx + 1]

\* C4 witness: all three locations are reported for a dataset in which each
\* extremum is attained at more than one index.
C4_Witness ==
    /\ "critical" \in stats.computed
    /\ \E i, j \in 1..Len(sval) :
        i < j /\ Magnitude(sval[i]) = Magnitude(sval[j])
              /\ Magnitude(sval[i]) = Lowest(Magnitudes(sval))
    /\ \E i, j \in 1..Len(sval) :
        i < j /\ Magnitude(sval[i]) = Magnitude(sval[j])
              /\ Magnitude(sval[i]) = Highest(Magnitudes(sval))
    /\ \E i, j \in 1..Len(bmval) :
        i < j /\ bmval[i] = bmval[j] /\ bmval[i] = Highest(bmval)

\* C5: when a required column is missing from the loaded table, the run is
\* aborted with the missing-columns error and exit code 1, no document is
\* built, the renderer is never invoked and no artifact is produced.
C5_MissingColumnAborts ==
    (TableRead /\ \E c \in RequiredNames :
                    \A i \in 1..Len(rawLabels) : ~MatchesTrimmed(rawLabels[i], c))
    => /\ pc = "done"
       /\ err = "MissingColumns"
       /\ exitCode = 1
       /\ df = NoTable
       /\ doc = <<>>
       /\ stats = NoStats
       /\ ~renderInvoked
       /\ ~artifact

\* C5 witness: a sheet without a bending-moment column was read and the run
\* ended.
C5_Witness ==
    /\ TableRead
    /\ \A i \in 1..Len(rawLabels) : ~MatchesFolded(rawLabels[i], L_bm)
    /\ pc = "done"

\* C6 (as stated): labels that differ from the required names only by letter
\* case or by surrounding whitespace pass validation.
C6_CaseInsensitiveMatch ==
    (TableRead /\ \A c \in RequiredNames :
                    \E i \in 1..Len(rawLabels) : MatchesFolded(rawLabels[i], c))
    => err # "MissingColumns"

\* C6 (amended): labels are matched exactly, letter case included, after
\* surrounding whitespace is trimmed; the missing-columns error is raised
\* exactly when a required name is absent under that matching.
C6_TrimmedExactMatch ==
    TableRead =>
        (err = "MissingColumns"
            <=> \E c \in RequiredNames :
                    \A i \in 1..Len(rawLabels) : ~MatchesTrimmed(rawLabels[i], c))

\* C6 witness: a sheet whose labels carry surrounding whitespace passed
\* validation.
C6_Witness ==
    /\ TableRead
    /\ \E i \in 1..Len(rawLabels) : rawLabels[i] \notin RequiredNames
    /\ df # NoTable

\* C7: when every x value is zero, neither builder produces a diagram.
C7_DegenerateAxisRejected ==
    (xval # <<>> /\ \A i \in 1..Len(xval) : xval[i] = 0)
    => (sfd.status # "ok" /\ bmd.status # "ok")

\* C8: a builder called with series of different lengths, or with an empty
\* series, fails and emits no diagram; with equal lengths it emits one pair
\* per index in input order.
C8_LengthMismatchRejected ==
    /\ (Len(xval) # Len(sval) \/ sval = <<>>) => sfd.status # "ok"
    /\ (Len(xval) # Len(bmval) \/ bmval = <<>>) => bmd.status # "ok"
    /\ (sfd.status = "ok" /\ Len(xval) = Len(sval)) =>
            sfd.coordinates = [i \in 1..Len(xval) |-> <<xval[i], sval[i]>>]
    /\ (bmd.status = "ok" /\ Len(xval) = Len(bmval)) =>
            bmd.coordinates = [i \in 1..Len(xval) |-> <<xval[i], bmval[i]>>]

\* C9: if the position, shear and moment arrays differ in length, report
\* generation fails with the inconsistent-lengths error before any statistic
\* is computed and before any document content is created, and the run
\* returns failure.
C9_LengthCheckFirst ==
    (df # NoTable /\ \E i, j \in 1..Len(df.data) : Len(df.data[i]) # Len(df.data[j]))
    => /\ stats = NoStats
       /\ doc = <<>>
       /\ sfd = NoPlot /\ bmd = NoPlot
       /\ ~renderInvoked /\ ~artifact
       /\ pc \in {"reportgen", "main_exit", "done"}
       /\ pc # "reportgen" => (err = "InconsistentLengths" /\ success = "False")
       /\ pc = "done" => exitCode = 1

\* C9 witness: a table whose arrays differ in length was rejected and the run
\* ended.
C9_Witness ==
    /\ df # NoTable
    /\ Len(df.data[1]) # Len(df.data[2])
    /\ pc = "done"

\* C10: when the beam image does not exist the build still succeeds: a note
\* stands in place of the figure, the five sections are produced in order and
\* the run proceeds to rendering.
C10_MissingImageIsSoft ==
    (imageExists = "no" /\ xval # <<>>)
    => /\ err \in {"none", "RenderError"}
       /\ doc[6] = "Note:Beam image not found"
       /\ doc[5] = "Subsection:Beam Description"
       /\ "Figure:Simply Supported Beam Configuration" \notin Values(doc)
       /\ pc \in {"input_data", "analysis", "interpretation", "conclusion",
                  "generate_pdf", "main_exit", "done"}
       /\ pc \in {"generate_pdf", "main_exit", "done"} =>
            /\ Sections(doc) = <<"Section:Introduction", "Section:Input Data",
                                 "Section:Structural Analysis",
                                 "Section:Engineering Interpretation",
                                 "Section:Conclusion">>
            /\ Len(doc) = 21
       /\ pc \in {"main_exit", "done"} => renderInvoked
       /\ pc = "done" => (exitCode = 0 <=> artifact)

\* C10 witness: a run without the beam image ended with the report rendered.
C10_Witness ==
    /\ imageExists = "no"
    /\ pc = "done"
    /\ artifact
    /\ exitCode = 0

C12_ExitCode ==
    /\ (pc = "done") <=> (exitCode # -1)
    /\ pc = "done" => (exitCode = 0 <=> (renderInvoked /\ artifact))
    /\ pc = "done" => (exitCode = 0 <=> err = "none")
    /\ err # "none" => pc \in {"main_exit", "done"}
    /\ err = "RenderError" => (renderInvoked /\ ~artifact /\ success = "False")
    /\ err \in {"ExcelNotFound", "ReadError", "MissingColumns", "NotNumeric",
                "InconsistentLengths"} => (~renderInvoked /\ ~artifact)
    /\ artifact => renderInvoked

\* C12 witness: a run whose rendering failed ended with exit code 1.
C12_Witness ==
    /\ pc = "done"
    /\ err = "RenderError"
    /\ exitCode = 1

\* the number a one-decimal text denotes, in tenths
TenthsOf(txt) == (IF txt.neg THEN -1 ELSE 1) * (txt.whole * 10 + txt.frac[1])

\* C13: the ymin and ymax written into the diagram text (one decimal each)
\* are strictly ordered, written ymax > written ymin, for every non-empty
\* value series.
C13_WrittenBoundsOrdered ==
    /\ sfd.status = "ok" => TenthsOf(sfd.ymaxText) > TenthsOf(sfd.yminText)
    /\ bmd.status = "ok" => TenthsOf(bmd.ymaxText) > TenthsOf(bmd.yminText)

====
